---- MODULE Spec2Model ----
(***************************************************************************)
(* A model of holidayapi_rust's client facade (src/src/lib.rs): the key    *)
(* and version validators, the construction of a HolidayAPI, the           *)
(* builder-factory methods, custom_request and the Display of              *)
(* HolidayAPIError.                                                        *)
(*                                                                         *)
(* Strings are sequences of one-character strings, so that the regular     *)
(* expression, the lowercasing, the URL parser and the formatting are      *)
(* computed character by character.  An Option is a sequence of length     *)
(* zero (None) or one (Some).                                              *)
(***************************************************************************)
EXTENDS Integers, Sequences, FiniteSets, TLC

VARIABLES
    ctor,      \* the construction call: its position, its arguments and its result
    api,       \* Option<HolidayAPI>: the facade once construction returned Ok
    calls,     \* per caller, the call it makes on the facade and how far it got
    net,       \* per caller (0: the construction), the URLs of the GET requests
               \* its call has put on the wire, in order
    shown      \* the outcomes of formatting returned errors with Display

vars == <<ctor, api, calls, net, shown>>

----------------------------------------------------------------------------
(* Bounds of the model *)

\* group lengths of a generated key differ from the pattern's by at most this
MaxSlack == 1
\* versions are drawn from -MaxVersion .. MaxVersion (and the ends of i32)
MaxVersion == 3
\* every endpoint string of at most this length over EndpointAlphabet is tried
MaxEndpointLen == 2
\* number of callers that share one facade in the concurrent specification
MaxCallers == 2

----------------------------------------------------------------------------
(* Option and string helpers *)

None == <<>>
Some(x) == <<x>>
IsSome(o) == Len(o) = 1
Unwrapped(o) == o[1]

RECURSIVE Repeat(_, _)
Repeat(c, n) == IF n <= 0 THEN <<>> ELSE <<c>> \o Repeat(c, n - 1)

StartsWith(s, p) == Len(s) >= Len(p) /\ SubSeq(s, 1, Len(p)) = p

Drop(s, n) == SubSeq(s, n + 1, Len(s))

Digits == <<"0", "1", "2", "3", "4", "5", "6", "7", "8", "9">>

RECURSIVE NatToChars(_)
NatToChars(n) == IF n < 10 THEN <<Digits[n + 1]>>
                 ELSE NatToChars(n \div 10) \o <<Digits[(n % 10) + 1]>>

\* the digits of a negative number, without negating it (-i32::MIN overflows)
RECURSIVE NegToChars(_)
NegToChars(v) ==
    LET q == (v + 9) \div 10      \* v / 10 rounded toward zero
        r == v - 10 * q           \* in -9 .. 0
    IN  IF v > -10 THEN <<Digits[1 - v]>>
        ELSE NegToChars(q) \o <<Digits[1 - r]>>

\* format!("{}", v) of an i32
IntToChars(v) == IF v < 0 THEN <<"-">> \o NegToChars(v) ELSE NatToChars(v)

I32Max == 2147483647
I32Min == -I32Max - 1

----------------------------------------------------------------------------
(* HolidayAPIError and Result *)

NoApi == [base_url |-> <<>>, key |-> <<>>]

Ok(a) == [tag |-> "Ok", msg |-> <<>>, api |-> a]
InvalidKeyFormat(m) == [tag |-> "InvalidKeyFormat", msg |-> m, api |-> NoApi]
InvalidVersion(m) == [tag |-> "InvalidVersion", msg |-> m, api |-> NoApi]

----------------------------------------------------------------------------
(* is_valid_key: Regex::new(...).is_match(key) *)

HexLower == {"0", "1", "2", "3", "4", "5", "6", "7", "8", "9",
             "a", "b", "c", "d", "e", "f"}

\* the group lengths of [0-9a-f]{8}-[0-9a-f]{4}-[0-9a-f]{4}-[0-9a-f]{4}-[0-9a-f]{12}
GroupLens == <<8, 4, 4, 4, 12>>

\* the pattern as one atom per character: "x" is the class [0-9a-f], "-" the literal
RECURSIVE PatternFrom(_)
PatternFrom(g) ==
    IF g > Len(GroupLens) THEN <<>>
    ELSE Repeat("x", GroupLens[g])
         \o (IF g < Len(GroupLens) THEN <<"-">> ELSE <<>>)
         \o PatternFrom(g + 1)

uuid_regex == PatternFrom(1)

AtomMatches(atom, c) == IF atom = "x" THEN c \in HexLower ELSE c = atom

\* the pattern matches the characters of s that start at position i
MatchesAt(re, s, i) ==
    /\ i + Len(re) - 1 <= Len(s)
    /\ \A j \in 1..Len(re) : AtomMatches(re[j], s[i + j - 1])

\* Regex::is_match: the pattern is not anchored, a match may start anywhere
is_match(re, s) == \E i \in 1..(Len(s) + 1) : MatchesAt(re, s, i)

is_valid_key(key) ==
    IF is_match(uuid_regex, key) THEN Ok(NoApi) ELSE InvalidKeyFormat(key)

----------------------------------------------------------------------------
(* is_valid_version *)

valid_versions == <<1>>

Contains(arr, x) == \E i \in 1..Len(arr) : arr[i] = x

\* format!("{:?}", valid_versions)
RECURSIVE DebugItems(_)
DebugItems(arr) ==
    IF arr = <<>> THEN <<>>
    ELSE IntToChars(Head(arr))
         \o (IF Len(arr) > 1 THEN <<",", " ">> ELSE <<>>)
         \o DebugItems(Tail(arr))

DebugArray(arr) == <<"[">> \o DebugItems(arr) \o <<"]">>

InvalidVersionText(version) ==
    <<"I","n","v","a","l","i","d"," ","v","e","r","s","i","o","n",":"," ">>
    \o IntToChars(version)
    \o <<","," ","p","l","e","a","s","e"," ","c","h","o","o","s","e",":"," ">>
    \o DebugArray(valid_versions)

is_valid_version_lower_bound(version) ==
    IF ~(version >= valid_versions[1])
    THEN InvalidVersion(InvalidVersionText(version))
    ELSE Ok(NoApi)

is_valid_version(version) ==
    IF ~Contains(valid_versions, version)
    THEN InvalidVersion(InvalidVersionText(version))
    ELSE Ok(NoApi)

----------------------------------------------------------------------------
(* construct_api, new, with_version *)

BaseUrlPrefix ==
    <<"h","t","t","p","s",":","/","/","h","o","l","i","d","a","y","a","p","i",
      ".","c","o","m","/","v">>

construct_api_no_slash(key, version) ==
    [base_url |-> BaseUrlPrefix \o IntToChars(version), key |-> key]

construct_api(key, version) ==
    [base_url |-> BaseUrlPrefix \o IntToChars(version) \o <<"/">>, key |-> key]

\* HolidayAPI::new: is_valid_key(key)?; Ok(construct_api(key, 1))
new(key) ==
    IF is_valid_key(key).tag # "Ok" THEN is_valid_key(key)
    ELSE Ok(construct_api(key, 1))

with_version_version_first(key, version) ==
    IF is_valid_version(version).tag # "Ok" THEN is_valid_version(version)
    ELSE IF is_valid_key(key).tag # "Ok" THEN is_valid_key(key)
    ELSE Ok(construct_api(key, version))

\* HolidayAPI::with_version: the two `?` return the first error
with_version(key, version) ==
    IF is_valid_key(key).tag # "Ok" THEN is_valid_key(key)
    ELSE IF is_valid_version(version).tag # "Ok" THEN is_valid_version(version)
    ELSE Ok(construct_api(key, version))

----------------------------------------------------------------------------
(* str::to_ascii_lowercase *)

LowerLetters ==
    <<"a","b","c","d","e","f","g","h","i","j","k","l","m","n","o","p","q","r",
      "s","t","u","v","w","x","y","z">>
UpperLetters ==
    <<"A","B","C","D","E","F","G","H","I","J","K","L","M","N","O","P","Q","R",
      "S","T","U","V","W","X","Y","Z">>

IsUpper(c) == \E i \in 1..Len(UpperLetters) : UpperLetters[i] = c
IsLower(c) == \E i \in 1..Len(LowerLetters) : LowerLetters[i] = c
IsDigit(c) == \E i \in 1..Len(Digits) : Digits[i] = c
IsAlpha(c) == IsUpper(c) \/ IsLower(c)

LowerChar(c) ==
    IF IsUpper(c)
    THEN LowerLetters[CHOOSE i \in 1..Len(UpperLetters) : UpperLetters[i] = c]
    ELSE c

to_ascii_lowercase(s) == [i \in 1..Len(s) |-> LowerChar(s[i])]

----------------------------------------------------------------------------
(* reqwest::Url (the url crate): parse, join, parse_with_params.            *)
(* Inputs are over letters, digits and the characters / : ? # . = & - _ +   *)
(* and space; userinfo (@), backslashes, percent-escapes, IP literals and    *)
(* the file scheme do not occur in them and are not modelled.               *)

\* a Url; host is None for a URL without authority, path is kept serialized
MkUrl(scheme, host, port, path, query, fragment) ==
    [scheme |-> scheme, host |-> host, port |-> port, path |-> path,
     query |-> query, fragment |-> fragment]

NoUrl == MkUrl(<<>>, None, <<>>, <<>>, None, None)

ParseOk(u) == [ok |-> TRUE, url |-> u]
ParseErr == [ok |-> FALSE, url |-> NoUrl]

SpecialSchemes ==
    { <<"h","t","t","p">>, <<"h","t","t","p","s">>, <<"w","s">>,
      <<"w","s","s">>, <<"f","t","p">> }

\* position of the first character of s that is in set cs, Len(s) + 1 if none
RECURSIVE FindFirst(_, _, _)
FindFirst(s, cs, i) ==
    IF i > Len(s) THEN Len(s) + 1
    ELSE IF s[i] \in cs THEN i
    ELSE FindFirst(s, cs, i + 1)

\* number of leading slashes of s
LeadingSlashes(s) == FindFirst(s, {c \in {s[i] : i \in 1..Len(s)} : c # "/"}, 1) - 1

\* Parser::parse_scheme: the position of the ':' ending a scheme, 0 if s starts
\* with no scheme
SchemeEnd(s) ==
    LET colon == FindFirst(s, {":"}, 1)
    IN  IF /\ s # <<>>
           /\ IsAlpha(s[1])
           /\ colon <= Len(s)
           /\ \A i \in 1..(colon - 1) :
                 IsAlpha(s[i]) \/ IsDigit(s[i]) \/ s[i] \in {"+", "-", "."}
        THEN colon
        ELSE 0

\* the path's segments: the text between slashes
RECURSIVE SplitOn(_, _)
SplitOn(s, sep) ==
    LET i == FindFirst(s, {sep}, 1)
    IN  IF i > Len(s) THEN <<s>>
        ELSE <<SubSeq(s, 1, i - 1)>> \o SplitOn(Drop(s, i), sep)

RECURSIVE JoinWith(_, _)
JoinWith(segs, sep) ==
    IF segs = <<>> THEN <<>>
    ELSE IF Len(segs) = 1 THEN Head(segs)
    ELSE Head(segs) \o <<sep>> \o JoinWith(Tail(segs), sep)

SerializePath(segs) == <<"/">> \o JoinWith(segs, "/")

\* the segments of a serialized path "/a/b/" are a, b and the empty segment
PathSegments(path) == IF path = <<>> THEN <<>> ELSE SplitOn(Drop(path, 1), "/")

DropLast(segs) == IF segs = <<>> THEN <<>> ELSE SubSeq(segs, 1, Len(segs) - 1)

\* Parser::parse_path: append the segments of `input` (already split) to
\* `segs`; "." is dropped and ".." pops, each leaving an empty segment when last
RECURSIVE PathLoop(_, _)
PathLoop(segs, input) ==
    IF input = <<>> THEN segs
    ELSE LET seg  == Head(input)
             last == Len(input) = 1
         IN  IF seg = <<".", ".">>
             THEN PathLoop(DropLast(segs) \o (IF last THEN << <<>> >> ELSE <<>>),
                           Tail(input))
             ELSE IF seg = <<".">>
             THEN PathLoop(segs \o (IF last THEN << <<>> >> ELSE <<>>), Tail(input))
             ELSE PathLoop(Append(segs, seg), Tail(input))

\* a special URL's path is never empty: no segment at all serializes as "/"
parse_path(segs, input) ==
    IF input = <<>> /\ segs = <<>> THEN <<"/">>
    ELSE SerializePath(PathLoop(segs, SplitOn(input, "/")))

\* split "path?query#fragment" at the first of ? and #
PathPart(s) == SubSeq(s, 1, FindFirst(s, {"?", "#"}, 1) - 1)

QueryPart(s) ==
    LET q == FindFirst(s, {"?", "#"}, 1)
        h == FindFirst(s, {"#"}, 1)
    IN  IF q <= Len(s) /\ s[q] = "?" THEN Some(SubSeq(s, q + 1, h - 1)) ELSE None

FragmentPart(s) ==
    LET h == FindFirst(s, {"#"}, 1)
    IN  IF h <= Len(s) THEN Some(Drop(s, h)) ELSE None

\* Parser::after_double_slash: host, port, then path, query and fragment
after_double_slash(scheme, input) ==
    LET authEnd == FindFirst(input, {"/", "?", "#"}, 1)
        auth    == SubSeq(input, 1, authEnd - 1)
        colon   == FindFirst(auth, {":"}, 1)
        host    == SubSeq(auth, 1, colon - 1)
        port    == Drop(auth, colon)
        rest    == Drop(input, authEnd - 1)
        special == scheme \in SpecialSchemes
        pathIn  == PathPart(rest)
    IN  IF special /\ host = <<>> THEN ParseErr                 \* EmptyHost
        ELSE IF \E i \in 1..Len(port) : ~IsDigit(port[i]) THEN ParseErr  \* InvalidPort
        ELSE ParseOk(MkUrl(scheme, Some(host), port,
                           IF pathIn = <<>>
                           THEN (IF special THEN <<"/">> ELSE <<>>)
                           ELSE parse_path(<<>>, Drop(pathIn, 1)),
                           QueryPart(rest), FragmentPart(rest)))

\* Parser::parse_non_special: an authority after "//", else a path or an
\* opaque path
parse_non_special(scheme, input) ==
    IF StartsWith(input, <<"/", "/">>) THEN after_double_slash(scheme, Drop(input, 2))
    ELSE ParseOk(MkUrl(scheme, None, <<>>,
                       IF StartsWith(input, <<"/">>)
                       THEN parse_path(<<>>, Drop(PathPart(input), 1))
                       ELSE PathPart(input),
                       QueryPart(input), FragmentPart(input)))

\* Parser::parse_relative: resolve `input`, which has no scheme of its own,
\* against `base`
parse_relative(input, base) ==
    IF input = <<>>
    THEN ParseOk([base EXCEPT !.fragment = None])
    ELSE IF Head(input) = "?"
    THEN ParseOk([base EXCEPT !.query = QueryPart(input),
                              !.fragment = FragmentPart(input)])
    ELSE IF Head(input) = "#"
    THEN ParseOk([base EXCEPT !.fragment = FragmentPart(input)])
    ELSE IF Head(input) = "/"
    THEN IF LeadingSlashes(input) >= 2
         THEN after_double_slash(base.scheme, Drop(input, 2))
         ELSE ParseOk([base EXCEPT
                          !.path = parse_path(<<>>, Drop(PathPart(input), 1)),
                          !.query = QueryPart(input),
                          !.fragment = FragmentPart(input)])
    ELSE ParseOk([base EXCEPT
                     !.path = parse_path(DropLast(PathSegments(base.path)),
                                         PathPart(input)),
                     !.query = QueryPart(input),
                     !.fragment = FragmentPart(input)])

\* Parser::parse_url: `base` is an Option<Url>
parse_url(base, input) ==
    LET colon  == SchemeEnd(input)
        scheme == to_ascii_lowercase(SubSeq(input, 1, colon - 1))
        rest   == Drop(input, colon)
    IN  IF colon > 0
        THEN IF scheme \in SpecialSchemes
             THEN IF /\ IsSome(base)
                     /\ LeadingSlashes(rest) < 2
                     /\ Unwrapped(base).scheme = scheme
                  THEN parse_relative(rest, Unwrapped(base))
                  ELSE after_double_slash(scheme, Drop(rest, LeadingSlashes(rest)))
             ELSE parse_non_special(scheme, rest)
        ELSE IF IsSome(base)
             THEN parse_relative(input, Unwrapped(base))
             ELSE ParseErr                                   \* RelativeUrlWithoutBase

\* Url::parse and Url::join
UrlParse(input) == parse_url(None, input)
UrlJoin(base, input) == parse_url(Some(base), input)

\* Display of a Url: its serialization
UrlToChars(u) ==
    u.scheme \o <<":">>
    \o (IF IsSome(u.host)
        THEN <<"/", "/">> \o Unwrapped(u.host)
             \o (IF u.port # <<>> THEN <<":">> \o u.port ELSE <<>>)
        ELSE <<>>)
    \o u.path
    \o (IF IsSome(u.query) THEN <<"?">> \o Unwrapped(u.query) ELSE <<>>)
    \o (IF IsSome(u.fragment) THEN <<"#">> \o Unwrapped(u.fragment) ELSE <<>>)

\* form_urlencoded::byte_serialize on the characters parameters are made of
EncodeChar(c) ==
    IF c = " " THEN <<"+">>
    ELSE IF c = "&" THEN <<"%", "2", "6">>
    ELSE IF c = "=" THEN <<"%", "3", "D">>
    ELSE <<c>>

RECURSIVE Encode(_)
Encode(s) == IF s = <<>> THEN <<>> ELSE EncodeChar(Head(s)) \o Encode(Tail(s))

\* Serializer::extend_pairs: "&" between pairs, none after an empty query
RECURSIVE extend_pairs(_, _)
extend_pairs(query, pairs) ==
    IF pairs = <<>> THEN query
    ELSE extend_pairs(query \o (IF query = <<>> THEN <<>> ELSE <<"&">>)
                            \o Encode(Head(pairs)[1]) \o <<"=">>
                            \o Encode(Head(pairs)[2]),
                      Tail(pairs))

\* Url::parse_with_params: parse, then query_pairs_mut().extend_pairs(pairs);
\* query_pairs_mut makes the query Some even when nothing is appended
parse_with_params(input, pairs) ==
    LET p == UrlParse(input)
        q == IF IsSome(p.url.query) THEN Unwrapped(p.url.query) ELSE <<>>
    IN  IF ~p.ok THEN ParseErr
        ELSE ParseOk([p.url EXCEPT !.query = Some(extend_pairs(q, pairs))])

----------------------------------------------------------------------------
(* reqwest::Response, reqwest::Error, serde_json::Value *)

\* a JSON value: t is its type, s the text of a string, fields an object's
\* members as <<name, value>> pairs
JsonValue(t, s, fields) == [t |-> t, s |-> s, fields |-> fields]
JsonString(s) == JsonValue("string", s, <<>>)
JsonNumber == JsonValue("number", <<>>, <<>>)
JsonArray == JsonValue("array", <<>>, <<>>)
JsonObject(fields) == JsonValue("object", <<>>, fields)

\* a response body: what serde_json::from_str makes of its text (None: not JSON)
Body(parsed) == [parsed |-> parsed]

Response(status, url, body) == [status |-> status, url |-> url, body |-> body]
NoResponse == Response(0, NoUrl, Body(None))

\* a reqwest::Error: its kind, Error::status() and Error::url()
ReqwestError(kind, status, url) == [kind |-> kind, status |-> status, url |-> url]
NoError == ReqwestError("none", None, None)

\* Result<Response, HolidayAPIError> of custom_request
OkResponse(r) == [tag |-> "Ok", response |-> r, err |-> NoError, msg |-> <<>>]
RequestError(e, m) ==
    [tag |-> "RequestError", response |-> NoResponse, err |-> e, msg |-> m]

\* StatusCode::is_client_error and is_server_error
is_client_error(status) == 400 <= status /\ status <= 499
is_server_error(status) == 500 <= status /\ status <= 599
is_success(status) == 200 <= status /\ status <= 299

\* Response::error_for_status_ref: Some(error) for a 4xx or 5xx status, None
\* (the Ok arm) for every other status
error_for_status_ref(response) ==
    IF is_client_error(response.status) \/ is_server_error(response.status)
    THEN Some(ReqwestError("status", Some(response.status), Some(response.url)))
    ELSE None

\* Value::as_object, Map::get ("error"), Value::as_str
as_object(val) == IF val.t = "object" THEN Some(val.fields) ELSE None

get(fields, name) ==
    IF \E i \in 1..Len(fields) : fields[i][1] = name
    THEN Some(fields[CHOOSE i \in 1..Len(fields) : fields[i][1] = name][2])
    ELSE None

as_str(val) == IF val.t = "string" THEN Some(val.s) ELSE None

\* lines 181-189: the message of an error body; None where an unwrap or the
\* expect panics
error_message(body) ==
    IF ~IsSome(body.parsed) THEN None                       \* "Error response to be JSON"
    ELSE LET o == as_object(Unwrapped(body.parsed))
             error == IF IsSome(o) THEN get(Unwrapped(o), "error") ELSE None
         IN  IF ~IsSome(error) THEN None
             ELSE as_str(Unwrapped(error))

\* Client::execute_request refuses every scheme but http and https before
\* anything is sent
SendableScheme(u) == u.scheme \in { <<"h","t","t","p">>, <<"h","t","t","p","s">> }

----------------------------------------------------------------------------
(* custom_request, lines 167-171: the URL of the request *)

KeyParam == <<"?","k","e","y","=">>

\* `pairs` is the parameter map in the order the HashMap iterates it; the
\* result is not ok where an unwrap or the expect panics
RequestUrl(facade, endpoint, pairs) ==
    LET base   == UrlParse(facade.base_url)
        joined == IF base.ok THEN UrlJoin(base.url, to_ascii_lowercase(endpoint))
                  ELSE ParseErr
    IN  IF ~joined.ok THEN ParseErr
        ELSE parse_with_params(UrlToChars(joined.url) \o KeyParam \o facade.key, pairs)

\* the orders a HashMap with these entries may iterate in
Orders(parameters) ==
    { s \in [1..Cardinality(parameters) -> parameters] :
        \A i, j \in 1..Cardinality(parameters) : i # j => s[i] # s[j] }

----------------------------------------------------------------------------
(* Display for HolidayAPIError *)

\* Display of a StatusCode: the code and its canonical reason
CanonicalReason(status) ==
    CASE status = 200 -> <<"O","K">>
      [] status = 304 -> <<"N","o","t"," ","M","o","d","i","f","i","e","d">>
      [] status = 401 -> <<"U","n","a","u","t","h","o","r","i","z","e","d">>
      [] status = 500 -> <<"I","n","t","e","r","n","a","l"," ","S","e","r","v","e","r",
                           " ","E","r","r","o","r">>
      [] OTHER -> <<"<","u","n","k","n","o","w","n"," ","s","t","a","t","u","s"," ",
                    "c","o","d","e",">">>

StatusToChars(status) == NatToChars(status) \o <<" ">> \o CanonicalReason(status)

\* the outcome of a formatting: the text, or a panic
Formatted(text) == [panicked |-> FALSE, text |-> text]
FmtPanic == [panicked |-> TRUE, text |-> <<>>]

\* lines 57-58: the arms of the errors construction returns
fmt_ctor(e) ==
    IF e.tag = "InvalidKeyFormat"
    THEN Formatted(<<"I","n","v","a","l","i","d"," ","k","e","y",":"," ">> \o e.msg)
    ELSE Formatted(<<"I","n","v","a","l","i","d"," ","v","e","r","s","i","o","n",":"," ">>
                   \o e.msg)

\* lines 62-70: the RequestError arm; both unwraps panic on None
fmt_request_error(e) ==
    IF ~IsSome(e.err.status) \/ ~IsSome(e.err.url) THEN FmtPanic
    ELSE Formatted(StatusToChars(Unwrapped(e.err.status)) \o <<":", " ">> \o e.msg
                   \o <<"\n">>
                   \o <<"R","a","w"," ","u","r","l",":"," ","'">>
                   \o UrlToChars(Unwrapped(e.err.url)) \o <<"'">>)

----------------------------------------------------------------------------
(* Inputs *)

\* the keys of the tests
EXPIRED_KEY ==
    <<"d","a","a","a","a","a","a","b","-","a","a","a","a","-","a","a","a","a","-",
      "a","a","a","a","-","2","a","a","a","a","d","a","3","7","e","1","4">>
INVALID_KEY ==
    <<"i","n","v","a","l","i","d","-","k","e","y","-","f","o","r","m","a","t">>

\* five groups of one character each, of the pattern's lengths changed by d,
\* joined by sep
RECURSIVE GroupsFrom(_, _, _, _)
GroupsFrom(g, d, fill, sep) ==
    IF g > Len(GroupLens) THEN <<>>
    ELSE Repeat(fill, GroupLens[g] + d[g])
         \o (IF g < Len(GroupLens) THEN sep ELSE <<>>)
         \o GroupsFrom(g + 1, d, fill, sep)

KeyFills == {"a", "0", "A", "g"}
KeySeparators == { <<"-">>, <<>> }

GeneratedKeys ==
    { GroupsFrom(1, d, fill, sep) :
        d \in [1..Len(GroupLens) -> (-MaxSlack)..MaxSlack],
        fill \in KeyFills, sep \in KeySeparators }

KeyInputs == GeneratedKeys \cup {EXPIRED_KEY, INVALID_KEY, <<>>}

VersionInputs == ((-MaxVersion)..MaxVersion) \cup {I32Min, I32Max}

\* a key with a character before the UUID, and the version besides 1
PaddedKey == <<"x">> \o EXPIRED_KEY
RequestKeys == {EXPIRED_KEY, PaddedKey, INVALID_KEY}
RequestVersions == {1, 2}

EndpointAlphabet == {"c", "C", "/", ":", "?", "#"}

ShortEndpoints == UNION { [1..n -> EndpointAlphabet] : n \in 0..MaxEndpointLen }

CountriesEndpoint == <<"c","o","u","n","t","r","i","e","s">>

NamedEndpoints ==
    { CountriesEndpoint,
      <<"C","o","u","n","t","r","i","e","s">>,
      <<"/","c","o","u","n","t","r","i","e","s">>,
      <<"/","/","e","v","i","l",".","i","o","/","x">>,
      <<"h","t","t","p","s",":","/","/","e","v","i","l",".","i","o","/">>,
      <<"H","T","T","P",":","/","/","e","v","i","l",".","i","o">>,
      <<"h","t","t","p","s",":","c","o","u","n","t","r","i","e","s">>,
      <<".",".","/","x">>,
      <<".","/","c","o","u","n","t","r","i","e","s">>,
      <<"c","o","u","n","t","r","i","e","s","?","a","=","b">>,
      <<"c","o","u","n","t","r","i","e","s","#","f">>,
      <<"w","s",":","/","/","e","v","i","l",".","i","o">>,
      <<"/","/","e","v","i","l",".","i","o",":","x">> }

Endpoints == ShortEndpoints \cup NamedEndpoints

\* parameter maps, as sets of <<name, value>> with distinct names
CountryUs == << <<"c","o","u","n","t","r","y">>, <<"u","s">> >>
SearchUnitedStates ==
    << <<"s","e","a","r","c","h">>, <<"u","n","i","t","e","d"," ","s","t","a","t","e","s">> >>
PublicTrue == << <<"p","u","b","l","i","c">>, <<"t","r","u","e">> >>
KeyStolen == << <<"k","e","y">>, <<"s","t","o","l","e","n">> >>

ParamMaps == { {}, {CountryUs}, {KeyStolen}, {SearchUnitedStates, PublicTrue} }

Statuses == {200, 304, 401, 500}

Unauthorized == <<"U","n","a","u","t","h","o","r","i","z","e","d">>

ErrorBody(m) == Body(Some(JsonObject(<< <<"error", JsonString(m)>> >>)))

Bodies ==
    { ErrorBody(Unauthorized),
      ErrorBody(<<>>),
      Body(Some(JsonObject(<< <<"message", JsonString(Unauthorized)>> >>))),
      Body(Some(JsonObject(<< <<"error", JsonNumber>> >>))),
      Body(Some(JsonArray)),
      Body(None) }

\* the inputs of the specifications that explore something else
FewKeys == {EXPIRED_KEY, INVALID_KEY}
HolidaysEndpoint == <<"h","o","l","i","d","a","y","s">>
FewEndpoints == {CountriesEndpoint, HolidaysEndpoint}
FewMaps == { {}, {CountryUs} }
FewStatuses == {200, 401}
FewBodies == {ErrorBody(Unauthorized), Body(None)}
ConcurrentBodies == {ErrorBody(Unauthorized)}

Callers == 1..MaxCallers

----------------------------------------------------------------------------
(* State *)

IdleCtor == [pc |-> "idle", fn |-> "none", key |-> <<>>, version |-> 0,
             result |-> Ok(NoApi)]

IdleCall == [pc |-> "idle", endpoint |-> <<>>, parameters |-> {}, pairs |-> <<>>,
             url |-> None, wire |-> FALSE, response |-> None, result |-> None,
             panic |-> "none", built |-> None]

Init ==
    /\ ctor = IdleCtor
    /\ api = None
    /\ calls = [c \in Callers |-> IdleCall]
    /\ net = [c \in {0} \cup Callers |-> <<>>]
    /\ shown = {}

----------------------------------------------------------------------------
(* Construction *)

Returned(fn, key, version, r) ==
    /\ ctor' = [pc |-> "returned", fn |-> fn, key |-> key, version |-> version,
                result |-> r]
    /\ api' = IF r.tag = "Ok" THEN Some(r.api) ELSE None

\* HolidayAPI::new(key)
New(keys) ==
    /\ ctor.pc = "idle"
    /\ \E key \in keys : Returned("new", key, 1, new(key))
    /\ UNCHANGED <<calls, net, shown>>

WithVersionProbingKey(keys, versions) ==
    /\ ctor.pc = "idle"
    /\ \E key \in keys, version \in versions :
          /\ Returned("with_version", key, version, with_version(key, version))
          /\ net' = IF is_valid_key(key).tag = "Ok"
                    THEN [net EXCEPT ![0] =
                            Append(@, UrlParse(construct_api(key, 1).base_url).url)]
                    ELSE net
    /\ UNCHANGED <<calls, shown>>

\* HolidayAPI::with_version(key, version)
WithVersion(keys, versions) ==
    /\ ctor.pc = "idle"
    /\ \E key \in keys, version \in versions :
          Returned("with_version", key, version, with_version(key, version))
    /\ UNCHANGED <<calls, net, shown>>

----------------------------------------------------------------------------
(* custom_request: one action per stretch between awaits *)

Facade == Unwrapped(api)

\* lines 167-174: build the URL and start the GET; an unwrap or the expect on
\* the URL panics before anything is sent
Started(c, endpoint, parameters, pairs, u) ==
    /\ calls' = [calls EXCEPT ![c] =
          IF u.ok
          THEN [@ EXCEPT !.pc = "send", !.endpoint = endpoint,
                         !.parameters = parameters, !.pairs = pairs,
                         !.url = Some(u.url), !.wire = SendableScheme(u.url)]
          ELSE [@ EXCEPT !.pc = "panicked", !.endpoint = endpoint,
                         !.parameters = parameters, !.pairs = pairs,
                         !.panic = "url"]]
    /\ net' = IF u.ok /\ SendableScheme(u.url)
              THEN [net EXCEPT ![c] = Append(@, u.url)]
              ELSE net

RequestWithLatestParameters(c, endpoints, maps) ==
    /\ IsSome(api)
    /\ calls[c].pc = "idle"
    /\ \E endpoint \in endpoints, parameters \in maps :
         \E pairs \in Orders(parameters) :
           LET others == {d \in Callers : d # c /\ calls[d].pc # "idle"}
               used   == IF others = {} THEN pairs
                         ELSE calls[CHOOSE d \in others : TRUE].pairs
           IN  Started(c, endpoint, parameters, pairs,
                       RequestUrl(Facade, endpoint, used))
    /\ UNCHANGED <<ctor, api, shown>>

\* custom_request(&self, endpoint, parameters), up to the first await
Request(c, endpoints, maps) ==
    /\ IsSome(api)
    /\ calls[c].pc = "idle"
    /\ \E endpoint \in endpoints, parameters \in maps :
         \E pairs \in Orders(parameters) :
           Started(c, endpoint, parameters, pairs,
                   RequestUrl(Facade, endpoint, pairs))
    /\ UNCHANGED <<ctor, api, shown>>

\* line 176: send() fails (the connection, or the scheme refused before any
\* sending); the error has no status
SendFails(c) ==
    /\ calls[c].pc = "send"
    /\ calls' = [calls EXCEPT ![c] =
          [@ EXCEPT !.pc = "returned",
                    !.result = Some(RequestError(
                        ReqwestError(IF calls[c].wire THEN "request" ELSE "builder",
                                     None, calls[c].url),
                        <<>>))]]
    /\ UNCHANGED <<ctor, api, net, shown>>

\* lines 178-179: a response arrives; without an error status it is returned
Respond(c, statuses, bodies) ==
    /\ calls[c].pc = "send"
    /\ calls[c].wire
    /\ \E status \in statuses, body \in bodies :
          LET r == Response(status, Unwrapped(calls[c].url), body)
          IN  calls' = [calls EXCEPT ![c] =
                  IF IsSome(error_for_status_ref(r))
                  THEN [@ EXCEPT !.pc = "text", !.response = Some(r)]
                  ELSE [@ EXCEPT !.pc = "returned", !.response = Some(r),
                                 !.result = Some(OkResponse(r))]]
    /\ UNCHANGED <<ctor, api, net, shown>>

\* line 181: response.text().await fails and the unwrap panics
TextFails(c) ==
    /\ calls[c].pc = "text"
    /\ calls' = [calls EXCEPT ![c] = [@ EXCEPT !.pc = "panicked", !.panic = "text"]]
    /\ UNCHANGED <<ctor, api, net, shown>>

custom_request_error_without_message(response) ==
    IF IsSome(error_message(response.body))
    THEN Some(RequestError(Unwrapped(error_for_status_ref(response)), <<>>))
    ELSE None

\* lines 180-190: the Err arm, None where it panics
custom_request_error(response) ==
    IF IsSome(error_message(response.body))
    THEN Some(RequestError(Unwrapped(error_for_status_ref(response)),
                           Unwrapped(error_message(response.body))))
    ELSE None

\* lines 181-189: the body arrives
TextArrives(c) ==
    /\ calls[c].pc = "text"
    /\ LET e == custom_request_error(Unwrapped(calls[c].response))
       IN  calls' = [calls EXCEPT ![c] =
              IF IsSome(e)
              THEN [@ EXCEPT !.pc = "returned", !.result = e]
              ELSE [@ EXCEPT !.pc = "panicked", !.panic = "body"]]
    /\ UNCHANGED <<ctor, api, net, shown>>

----------------------------------------------------------------------------
(* The caller formats an error it was returned, as tests::test_countries does *)

DisplayCtorError ==
    /\ ctor.pc = "returned"
    /\ ctor.result.tag # "Ok"
    /\ \A s \in shown : s.who # 0
    /\ shown' = shown \cup {[who |-> 0, out |-> fmt_ctor(ctor.result)]}
    /\ UNCHANGED <<ctor, api, calls, net>>

DisplayRequestError(c) ==
    /\ calls[c].pc = "returned"
    /\ Unwrapped(calls[c].result).tag = "RequestError"
    /\ \A s \in shown : s.who # c
    /\ shown' = shown \cup
          {[who |-> c, out |-> fmt_request_error(Unwrapped(calls[c].result))]}
    /\ UNCHANGED <<ctor, api, calls, net>>

----------------------------------------------------------------------------
(* The builder-factory methods: each hands &self and its arguments to        *)
(* Request::new and returns the Request                                      *)

\* Request::<T>::new: the Request holds the facade's fields and the required
\* parameters
RequestNew(kind, facade, required) ==
    [kind |-> kind, api |-> facade, required |-> required]

\* caller c is returned the Request
Built(c, request) ==
    /\ IsSome(api)
    /\ calls[c].pc = "idle"
    /\ calls' = [calls EXCEPT ![c] = [@ EXCEPT !.pc = "built", !.built = Some(request)]]
    /\ UNCHANGED <<ctor, api, net, shown>>

CountryArgs == { <<"u","s">> }
YearArgs == {2020}
DateArgs == { <<"2","0","2","1","-","0","1","-","0","1">> }
DaysArgs == {100}

countries(c) == Built(c, RequestNew("countries", Facade, <<>>))

holidays(c) ==
    \E country \in CountryArgs, year \in YearArgs :
        Built(c, RequestNew("holidays", Facade, <<country, IntToChars(year)>>))

workday(c) ==
    \E country \in CountryArgs, start \in DateArgs, days \in DaysArgs :
        Built(c, RequestNew("workday", Facade, <<country, start, IntToChars(days)>>))

workdays(c) ==
    \E country \in CountryArgs, start \in DateArgs, days \in DateArgs :
        Built(c, RequestNew("workdays", Facade, <<country, start, days>>))

languages(c) == Built(c, RequestNew("languages", Facade, <<>>))

----------------------------------------------------------------------------
(* Specifications *)

\* one caller, every endpoint, parameter map, status and body
Next ==
    \/ New(RequestKeys)
    \/ WithVersion(RequestKeys, RequestVersions)
    \/ Request(1, Endpoints, ParamMaps)
    \/ SendFails(1)
    \/ Respond(1, Statuses, Bodies)
    \/ TextFails(1)
    \/ TextArrives(1)
    \/ DisplayCtorError
    \/ DisplayRequestError(1)

Spec == Init /\ [][Next]_vars

\* every key and version, then a caller with a few requests
NextConstruct ==
    \/ New(KeyInputs)
    \/ WithVersion(KeyInputs, VersionInputs)
    \/ Request(1, FewEndpoints, FewMaps)
    \/ SendFails(1)
    \/ Respond(1, FewStatuses, FewBodies)
    \/ TextFails(1)
    \/ TextArrives(1)
    \/ DisplayCtorError
    \/ DisplayRequestError(1)

SpecConstruct == Init /\ [][NextConstruct]_vars

\* several callers share the facade, each making one call on it: countries
\* with no parameter, holidays with country=us, or one of the factories
NextConcurrent ==
    \/ New(FewKeys)
    \/ WithVersion(FewKeys, RequestVersions)
    \/ \E c \in Callers : Request(c, {CountriesEndpoint}, {{}})
    \/ \E c \in Callers : Request(c, {HolidaysEndpoint}, {{CountryUs}})
    \/ \E c \in Callers : SendFails(c)
    \/ \E c \in Callers : Respond(c, FewStatuses, ConcurrentBodies)
    \/ \E c \in Callers : TextFails(c)
    \/ \E c \in Callers : TextArrives(c)
    \/ \E c \in Callers : countries(c)
    \/ \E c \in Callers : holidays(c)
    \/ \E c \in Callers : workday(c)
    \/ \E c \in Callers : workdays(c)
    \/ \E c \in Callers : languages(c)

SpecConcurrent == Init /\ [][NextConcurrent]_vars

----------------------------------------------------------------------------
(* Properties *)

\* the whole of `key` is 8-4-4-4-12 lowercase hex groups
IsUuidShape(key) == Len(key) = Len(uuid_regex) /\ MatchesAt(uuid_regex, key, 1)

KeyValid(key) == is_valid_key(key).tag = "Ok"
VersionValid(version) == is_valid_version(version).tag = "Ok"

\* C1: is_valid_key(key) and new(key) succeed when key has the UUID shape and
\* fail with InvalidKeyFormat for every key that has not.
C1_KeyAcceptedIffUuidShape ==
    (ctor.pc = "returned" /\ ctor.fn = "new") =>
        /\ IsUuidShape(ctor.key) =>
              is_valid_key(ctor.key).tag = "Ok" /\ ctor.result.tag = "Ok"
        /\ ~IsUuidShape(ctor.key) =>
              /\ is_valid_key(ctor.key) = InvalidKeyFormat(ctor.key)
              /\ ctor.result = InvalidKeyFormat(ctor.key)

\* C2: with_version checks the key first: an invalid key gives
\* InvalidKeyFormat whatever the version, InvalidVersion is returned only for
\* a valid key with an unsupported version, and a facade only when both are
\* valid.
C2_KeyErrorTakesPrecedence ==
    (ctor.pc = "returned" /\ ctor.fn = "with_version") =>
        /\ ~KeyValid(ctor.key) => ctor.result.tag = "InvalidKeyFormat"
        /\ ctor.result.tag = "InvalidVersion" =>
              KeyValid(ctor.key) /\ ~VersionValid(ctor.version)
        /\ (ctor.result.tag = "Ok" /\ IsSome(api)) <=>
              (KeyValid(ctor.key) /\ VersionValid(ctor.version))

C2_BothInvalid ==
    /\ ctor.pc = "returned" /\ ctor.fn = "with_version"
    /\ ~KeyValid(ctor.key) /\ ~VersionValid(ctor.version)
    /\ ctor.result.tag = "InvalidKeyFormat"

\* C3: is_valid_version succeeds for version 1 and fails with InvalidVersion
\* for every other i32; with a valid key that is with_version's result.
C3_OnlyVersionOne ==
    (ctor.pc = "returned" /\ ctor.fn = "with_version") =>
        /\ is_valid_version(ctor.version).tag =
              IF ctor.version = 1 THEN "Ok" ELSE "InvalidVersion"
        /\ KeyValid(ctor.key) =>
              ctor.result.tag = IF ctor.version = 1 THEN "Ok" ELSE "InvalidVersion"

C3_VersionTwoRefused ==
    /\ ctor.pc = "returned" /\ ctor.fn = "with_version"
    /\ KeyValid(ctor.key) /\ ctor.version = 2
    /\ ctor.result.tag = "InvalidVersion"

\* the body is a JSON object {"error": m} with a string m
IsErrorBody(body) == \E m \in {Unauthorized, <<>>} : body = ErrorBody(m)
ErrorOf(body) == Unwrapped(as_str(Unwrapped(get(Unwrapped(as_object(
                     Unwrapped(body.parsed))), "error"))))

HasResponse(c) == IsSome(calls[c].response)
StatusOf(c) == Unwrapped(calls[c].response).status
BodyOf(c) == Unwrapped(calls[c].response).body
ResultOf(c) == Unwrapped(calls[c].result)

\* what C4 says of the calls whose response has a status in `bad`
ErrorResponseSurfaced(c, bad) ==
    (HasResponse(c) /\ StatusOf(c) \in bad) =>
        /\ calls[c].pc = "returned" => ResultOf(c).tag = "RequestError"
        /\ (calls[c].pc = "returned" /\ IsErrorBody(BodyOf(c))) =>
              /\ ResultOf(c).msg = ErrorOf(BodyOf(c))
              /\ ResultOf(c).err.status = Some(StatusOf(c))
        /\ (calls[c].pc = "panicked" /\ calls[c].panic = "body") =>
              ~IsErrorBody(BodyOf(c))

\* C4 as claimed: a response with a non-success status and body {"error": m}
\* gives Err(RequestError) with message m and that status, never Ok.
C4_NonSuccessIsRequestError ==
    \A c \in Callers :
        ErrorResponseSurfaced(c, {s \in Statuses : ~is_success(s)})

\* C4 as amended: a response with a client-error or server-error status (400
\* to 599) and body {"error": m} gives Err(RequestError) with message m and
\* that status, never Ok.
C4_ErrorStatusIsRequestError ==
    \A c \in Callers :
        ErrorResponseSurfaced(c, {s \in Statuses : 400 <= s /\ s <= 599})

C4_UnauthorizedSurfaced ==
    /\ calls[1].pc = "returned"
    /\ HasResponse(1) /\ StatusOf(1) = 401 /\ BodyOf(1) = ErrorBody(Unauthorized)
    /\ ResultOf(1).tag = "RequestError" /\ ResultOf(1).msg = Unauthorized

\* C5: nothing panics, but for a malformed error body: no call of
\* custom_request and no formatting of a returned error.
C5_NoPanicButMalformedBody ==
    /\ \A c \in Callers : calls[c].pc = "panicked" => calls[c].panic = "body"
    /\ \A s \in shown : ~s.out.panicked

Https == <<"h","t","t","p","s">>
ServiceHost == <<"h","o","l","i","d","a","y","a","p","i",".","c","o","m">>

\* C6: every GET goes to https://holidayapi.com/v<version>/<lowercased
\* endpoint> with the query key=<credential> followed by the parameters.
C6_RequestsGoToTheService ==
    \A c \in Callers : \A i \in 1..Len(net[c]) :
        LET u == net[c][i]
            call == calls[c]
        IN  /\ u.scheme = Https
            /\ u.host = Some(ServiceHost)
            /\ u.port = <<>>
            /\ u.path = <<"/", "v">> \o IntToChars(ctor.version) \o <<"/">>
                        \o to_ascii_lowercase(call.endpoint)
            /\ u.query = Some(extend_pairs(<<"k","e","y","=">> \o Facade.key,
                                           call.pairs))
            /\ u.fragment = None

\* C7: construction does nothing on the network: new and with_version send
\* no GET, nothing has been sent while no facade exists, and every GET sent is
\* that of a started custom_request call.
C7_ConstructionSendsNothing ==
    /\ net[0] = <<>>
    /\ (ctor.pc = "idle" \/ ~IsSome(api)) => \A c \in Callers : net[c] = <<>>
    /\ \A c \in Callers : calls[c].pc \in {"idle", "built"} => net[c] = <<>>

C7_InvalidVersionWithoutNetwork ==
    /\ ctor.pc = "returned" /\ ctor.fn = "with_version"
    /\ ctor.result.tag = "InvalidVersion"
    /\ \A c \in {0} \cup Callers : net[c] = <<>>

ServiceV1 ==
    <<"h","t","t","p","s",":","/","/","h","o","l","i","d","a","y","a","p","i",
      ".","c","o","m","/","v","1","/">>

\* C8: a facade's base URL is https://holidayapi.com/v<version>/, v1 for
\* new(key), and its key is the key given.
C8_BaseUrlFromVersion ==
    IsSome(api) =>
        /\ Facade.base_url =
              Https \o <<":", "/", "/">> \o ServiceHost \o <<"/", "v">>
              \o IntToChars(ctor.version) \o <<"/">>
        /\ ctor.fn = "new" => Facade.base_url = ServiceV1
        /\ Facade.key = ctor.key

C8_NewFacade ==
    /\ ctor.fn = "new" /\ IsSome(api)
    /\ Facade.key = EXPIRED_KEY /\ Facade.base_url = ServiceV1

\* what the call of caller c returns, from its own URL and response alone
OwnOutcome(c) ==
    IF ~HasResponse(c)
    THEN Some(RequestError(
             ReqwestError(IF SendableScheme(Unwrapped(calls[c].url))
                          THEN "request" ELSE "builder",
                          None, calls[c].url),
             <<>>))
    ELSE IF IsSome(error_for_status_ref(Unwrapped(calls[c].response)))
    THEN custom_request_error(Unwrapped(calls[c].response))
    ELSE Some(OkResponse(Unwrapped(calls[c].response)))

\* C9: the facade stays as constructed, and each call's URL, request and
\* result are those of its own endpoint and parameters and the facade; each
\* Request built holds the facade's fields.
C9_CallsDoNotInterfere ==
    /\ IsSome(api) => (ctor.pc = "returned" /\ api = Some(ctor.result.api))
    /\ \A c \in Callers :
          /\ calls[c].pc \in {"send", "text", "returned"} =>
                /\ calls[c].url =
                      Some(RequestUrl(Facade, calls[c].endpoint, calls[c].pairs).url)
                /\ net[c] = IF SendableScheme(Unwrapped(calls[c].url))
                            THEN <<Unwrapped(calls[c].url)>> ELSE <<>>
          /\ HasResponse(c) => Unwrapped(calls[c].response).url = Unwrapped(calls[c].url)
          /\ calls[c].pc = "returned" => calls[c].result = OwnOutcome(c)
          /\ calls[c].pc = "built" => Unwrapped(calls[c].built).api = Facade

C9_TwoCallsReturned ==
    /\ calls[1].pc = "returned" /\ calls[2].pc = "returned"
    /\ calls[1].pairs # calls[2].pairs
    /\ calls[1].endpoint # calls[2].endpoint
    /\ ResultOf(1).tag = "Ok" /\ ResultOf(2).tag = "RequestError"

GetsOf(c) == Len(net[c])

\* the GETs caller c handed to the client: those sent, and the one the client
\* refused to send
Attempts(c) ==
    GetsOf(c) + (IF IsSome(calls[c].url) /\ ~calls[c].wire THEN 1 ELSE 0)

\* C10: a call issues exactly one GET and then has exactly one outcome: Ok on
\* a success status, Err(RequestError) with the server's message on any other
\* status, Err(RequestError) with an empty message, and no body read, when the
\* GET fails.
C10_OneGetOneOutcome ==
    \A c \in Callers :
        /\ calls[c].pc \notin {"idle", "built"} => Attempts(c) = 1
        /\ calls[c].pc # "panicked"
        /\ calls[c].pc = "returned" =>
              IF ~HasResponse(c)
              THEN ResultOf(c).tag = "RequestError" /\ ResultOf(c).msg = <<>>
              ELSE IF is_success(StatusOf(c))
              THEN ResultOf(c) = OkResponse(Unwrapped(calls[c].response))
              ELSE /\ ResultOf(c).tag = "RequestError"
                   /\ IsErrorBody(BodyOf(c)) => ResultOf(c).msg = ErrorOf(BodyOf(c))

====
